---------------------------- MODULE Spec2Model ----------------------------
(***************************************************************************)
(* The session orchestrator of the eoweb client (src/src/client.ts): the   *)
(* Client object, its six request methods, showError/emit, and the packet  *)
(* handlers that setBus registers and that mutate the client on the        *)
(* server's behalf.                                                        *)
(*                                                                         *)
(* client  the fields of the Client object.                                *)
(* out     what the most recent call or notification did to the outside    *)
(*         world, in program order: packets handed to bus.send and events  *)
(*         published on the emitter.                                       *)
(* call    which call or notification that was, with its arguments, whether*)
(*         it ended in an exception, and the client fields it started from.*)
(* charactersReceived, fetchRequests  history of the conversation with the *)
(*         server (see their handlers).                                    *)
(* pending the loads the constructor started that have not completed yet.  *)
(* mapLoads  the map identifiers of the loadMap calls still in flight, in  *)
(*         the order of the calls; lastLoadMap the identifier of the most  *)
(*         recent loadMap call (0 before the first).                       *)
(* handlers  the emitter: per event name, the handlers registered with     *)
(*         on(), in the order of registration; invoked the handler         *)
(*         invocations of the most recent call or notification, in order.  *)
(* animations  the NpcDeathAnimation objects, by npc index; tickCalls how  *)
(*         often tick() was called on each since it was constructed.       *)
(* log     the calls and notifications so far with the packets each sent,  *)
(*         kept for the first log.keep of them (none in the specifications *)
(*         that follow no scenario).                                       *)
(***************************************************************************)
EXTENDS Integers, Sequences, FiniteSets, TLC

VARIABLES client, out, call, charactersReceived, fetchRequests,
          pending, mapLoads, lastLoadMap, handlers, invoked,
          animations, tickCalls, log

vars == <<client, out, call, charactersReceived, fetchRequests,
          pending, mapLoads, lastLoadMap, handlers, invoked,
          animations, tickCalls, log>>

(***************************************************************************)
(* Bounds of the model.                                                    *)
(***************************************************************************)
MaxSessionId == 2
MaxMapId == 2
MaxCharacterId == 2
MaxFileId == 2
MaxPlayerId == 3
MaxQueue == 2
MaxMapLoads == 2
MaxHandlers == 2
MaxNpcs == 3
ExtraTicks == 2
MaxWarpSteps == 5
MaxTrafficSteps == 2

SessionIds == 1..MaxSessionId
MapIds == 1..MaxMapId
CharacterIds == 1..MaxCharacterId
FileIds == 1..MaxFileId
PlayerIds == 1..MaxPlayerId
Usernames == {"bob", "eve"}
Passwords == {"pw", "hunter2"}

(***************************************************************************)
(* enum GameState                                                          *)
(***************************************************************************)
Initial == 0
Connected == 1
Login == 2
LoggedIn == 3
InGame == 4

GameState == {Initial, Connected, Login, LoggedIn, InGame}

(***************************************************************************)
(* FileType, as requestFile switches on it.  "Unrecognised" stands for a   *)
(* value that matches none of the five cases.                              *)
(***************************************************************************)
KnownFileTypes == {"Ecf", "Eif", "Enf", "Esf", "Emf"}
FileType == KnownFileTypes \cup {"Unrecognised"}

NULL == "null"
Undefined == "undefined"
Bus == "bus"

(***************************************************************************)
(* The NearbyInfo of a client with nothing in sight.                       *)
(***************************************************************************)
EmptyNearby == [characters |-> <<>>, npcs |-> <<>>, items |-> <<>>]

(***************************************************************************)
(* The Client object after construction.                                   *)
(***************************************************************************)
NewClient ==
    [bus |-> NULL,
     playerId |-> 0,
     character |-> [id |-> 0],
     mapId |-> 5,
     warpMapId |-> 0,
     warpQueued |-> FALSE,
     state |-> Initial,
     sessionId |-> 0,
     serverSettings |-> NULL,
     motd |-> "",
     nearby |-> EmptyNearby,
     eif |-> NULL,
     ecf |-> NULL,
     enf |-> NULL,
     esf |-> NULL,
     map |-> NULL,
     downloadQueue |-> <<>>,
     unknownPlayerIds |-> {}]

(***************************************************************************)
(* Effects on the outside world.                                           *)
(***************************************************************************)
Sent(packet) == [ch |-> "send", packet |-> packet]
Emitted(event, data) == [ch |-> "emit", event |-> event, data |-> data]

IsSent(e) == e.ch = "send"
IsEmitted(e) == e.ch = "emit"

\* The packets handed to the transport, and the events published, by the
\* most recent call or notification.
SentPackets ==
    LET sends == SelectSeq(out, IsSent)
    IN  [i \in DOMAIN sends |-> sends[i].packet]
Events == SelectSeq(out, IsEmitted)

(***************************************************************************)
(* The emitter (mitt): on() appends the handler to the list of its event   *)
(* name, emit() invokes the handlers of the event name in that order.      *)
(***************************************************************************)
EventNames ==
    {"error", "debug", "login", "selectCharacter", "enterGame",
     "playerWalk", "npcWalk", "switchMap", "refresh"}

HandlerIds == {"h1", "h2"}

Invocations(e) ==
    [i \in DOMAIN handlers[e.event] |->
        [handler |-> handlers[e.event][i], event |-> e.event, data |-> e.data]]

RECURSIVE Delivered(_)
\* The handler invocations of the effects of a call, in order.
Delivered(effects) ==
    IF effects = <<>> THEN <<>>
    ELSE (IF IsEmitted(Head(effects)) THEN Invocations(Head(effects)) ELSE <<>>)
             \o Delivered(Tail(effects))

\* emit(event, data) after the effects `done`.
emit(done, event, data) == Append(done, Emitted(event, data))

\* showError that publishes the error twice.
showError_twice(done, message, title) ==
    emit(emit(done, "error", [title |-> title, message |-> message]),
         "error", [title |-> title, message |-> message])

\* showError whose title defaults to a caption instead of the empty string.
showError_captioned(done, message, title) ==
    emit(done, "error",
         [title |-> IF title = Undefined THEN "Error" ELSE title, message |-> message])

\* showError(message, title) after the effects `done`; a title left out
\* defaults to the empty string.
showError(done, message, title) ==
    emit(done, "error",
         [title |-> IF title = Undefined THEN "" ELSE title, message |-> message])

\* bus.send that hands the packet over a second time.
busSend_twice(done, packet) ==
    IF client.bus = NULL THEN done ELSE Append(Append(done, Sent(packet)), Sent(packet))

\* this.bus.send(packet) after the effects `done`: with no bus attached the
\* property access on null throws and nothing is sent.
busSend(done, packet) == IF client.bus = NULL THEN done ELSE Append(done, Sent(packet))

\* The packets among the effects of a call.
PacketsOf(effects) ==
    LET sends == SelectSeq(effects, IsSent)
    IN  [i \in DOMAIN sends |-> sends[i].packet]

\* The log after a call or notification with these effects.
Logged(op, args, effects) ==
    IF Len(log.entries) < log.keep
        THEN [log EXCEPT !.entries = Append(@, [op |-> op, args |-> args,
                                                sent |-> PacketsOf(effects)])]
        ELSE log

Throws == client.bus = NULL

Call(op, args, threw) == [op |-> op, args |-> args, threw |-> threw, pre |-> client]

\* A call or notification that leaves the conversation history alone.
NoHistory == UNCHANGED <<charactersReceived, fetchRequests>>

\* A call or notification that neither starts nor completes a load.
NoLoads == UNCHANGED <<pending, mapLoads, lastLoadMap>>

\* A call or notification that registers no handler and touches no
\* animation.
Elsewhere == UNCHANGED <<handlers, animations, tickCalls>>

\* What every call and notification does besides its own work: the
\* emitter invokes the handlers of what it published, and the log grows.
Observed(op, args, effects) ==
    /\ invoked' = Delivered(effects)
    /\ log' = Logged(op, args, effects)

\* A client method: its effects, and the fields it leaves the client with.
Method(op, args, effects, threw, after) ==
    /\ out' = effects
    /\ call' = Call(op, args, threw)
    /\ client' = after
    /\ NoHistory
    /\ NoLoads
    /\ Elsewhere
    /\ Observed(op, args, effects)

(***************************************************************************)
(* setBus(bus): attaches the transport and registers the handlers.         *)
(***************************************************************************)
setBus ==
    Method("setBus", <<>>, <<>>, FALSE, [client EXCEPT !.bus = Bus])

(***************************************************************************)
(* The six request methods.                                                *)
(***************************************************************************)
LoginRequestClientPacket(username, password) ==
    [family |-> "LoginRequest", username |-> username, password |-> password]

\* login with the credentials in each other's place.
login_swapped(username, password) ==
    Method("login", <<username, password>>,
           busSend(<<>>, LoginRequestClientPacket(password, username)),
           Throws, client)

login(username, password) ==
    Method("login", <<username, password>>,
           busSend(<<>>, LoginRequestClientPacket(username, password)),
           Throws, client)

WelcomeRequestClientPacket(characterId) ==
    [family |-> "WelcomeRequest", characterId |-> characterId]

\* selectCharacter that marks the client logged in before the server answers.
selectCharacter_advances(characterId) ==
    Method("selectCharacter", <<characterId>>,
           busSend(<<>>, WelcomeRequestClientPacket(characterId)),
           Throws,
           IF Throws THEN client ELSE [client EXCEPT !.state = LoggedIn])

selectCharacter(characterId) ==
    Method("selectCharacter", <<characterId>>,
           busSend(<<>>, WelcomeRequestClientPacket(characterId)),
           Throws, client)

WarpTakeClientPacket(sessionId, mapId) ==
    [family |-> "WarpTake", sessionId |-> sessionId, mapId |-> mapId]

\* requestWarpMap that records the target before the server accepts it.
requestWarpMap_optimistic(id) ==
    Method("requestWarpMap", <<id>>,
           busSend(<<>>, WarpTakeClientPacket(client.sessionId, id)),
           Throws,
           IF Throws THEN client ELSE [client EXCEPT !.warpMapId = id])

\* requestWarpMap that refuses while an accepted warp is pending.
requestWarpMap_singleFlight(id) ==
    Method("requestWarpMap", <<id>>,
           IF client.warpQueued THEN <<>>
           ELSE busSend(<<>>, WarpTakeClientPacket(client.sessionId, id)),
           Throws, client)

requestWarpMap(id) ==
    Method("requestWarpMap", <<id>>,
           busSend(<<>>, WarpTakeClientPacket(client.sessionId, id)),
           Throws, client)

WarpAcceptClientPacket(sessionId, mapId) ==
    [family |-> "WarpAccept", sessionId |-> sessionId, mapId |-> mapId]

\* acceptWarp that echoes the current map instead of the warp target.
acceptWarp_currentMap ==
    Method("acceptWarp", <<>>,
           busSend(<<>>, WarpAcceptClientPacket(client.sessionId, client.mapId)),
           Throws,
           IF Throws THEN client ELSE [client EXCEPT !.warpQueued = FALSE])

\* acceptWarp that stamps the player id where the session id belongs.
acceptWarp_playerId ==
    Method("acceptWarp", <<>>,
           busSend(<<>>, WarpAcceptClientPacket(client.playerId, client.warpMapId)),
           Throws,
           IF Throws THEN client ELSE [client EXCEPT !.warpQueued = FALSE])

acceptWarp ==
    Method("acceptWarp", <<>>,
           busSend(<<>>, WarpAcceptClientPacket(client.sessionId, client.warpMapId)),
           Throws,
           IF Throws THEN client ELSE [client EXCEPT !.warpQueued = FALSE])

NoFileTypeData == [variant |-> Undefined]

\* The switch of requestFile with the Eif case building the Ecf payload.
requestFileSwitch_copied(fileType, id) ==
    CASE fileType = "Ecf" ->
           [fileTypeData |-> [variant |-> "FileTypeDataEcf", fileId |-> id],
            emitted |-> emit(<<>>, "debug", "Loading classes..")]
      [] fileType = "Eif" ->
           [fileTypeData |-> [variant |-> "FileTypeDataEcf", fileId |-> id],
            emitted |-> emit(<<>>, "debug", "Loading items..")]
      [] fileType = "Enf" ->
           [fileTypeData |-> [variant |-> "FileTypeDataEnf", fileId |-> id],
            emitted |-> emit(<<>>, "debug", "Loading NPCs..")]
      [] fileType = "Esf" ->
           [fileTypeData |-> [variant |-> "FileTypeDataEsf", fileId |-> id],
            emitted |-> emit(<<>>, "debug", "Loading spells..")]
      [] fileType = "Emf" ->
           [fileTypeData |-> [variant |-> "FileTypeDataEmf", fileId |-> id],
            emitted |-> emit(<<>>, "debug", "Loading map..")]
      [] OTHER ->
           [fileTypeData |-> NoFileTypeData, emitted |-> <<>>]

\* The switch of requestFile: the payload variant it builds and the debug
\* events it publishes for a file type.
requestFileSwitch(fileType, id) ==
    CASE fileType = "Ecf" ->
           [fileTypeData |-> [variant |-> "FileTypeDataEcf", fileId |-> id],
            emitted |-> emit(<<>>, "debug", "Loading classes..")]
      [] fileType = "Eif" ->
           [fileTypeData |-> [variant |-> "FileTypeDataEif", fileId |-> id],
            emitted |-> emit(<<>>, "debug", "Loading items..")]
      [] fileType = "Enf" ->
           [fileTypeData |-> [variant |-> "FileTypeDataEnf", fileId |-> id],
            emitted |-> emit(<<>>, "debug", "Loading NPCs..")]
      [] fileType = "Esf" ->
           [fileTypeData |-> [variant |-> "FileTypeDataEsf", fileId |-> id],
            emitted |-> emit(<<>>, "debug", "Loading spells..")]
      [] fileType = "Emf" ->
           [fileTypeData |-> [variant |-> "FileTypeDataEmf", fileId |-> id],
            emitted |-> emit(<<>>, "debug", "Loading map..")]
      [] OTHER ->
           [fileTypeData |-> NoFileTypeData, emitted |-> <<>>]

WelcomeAgreeClientPacket(sessionId, fileType, fileTypeData) ==
    [family |-> "WelcomeAgree", sessionId |-> sessionId,
     fileType |-> fileType, fileTypeData |-> fileTypeData]

\* requestFile that hands the packet to the transport before it publishes
\* the progress notification.
requestFile_sendFirst(fileType, id) ==
    LET switched == requestFileSwitch(fileType, id)
        packet == WelcomeAgreeClientPacket(client.sessionId, fileType,
                                           switched.fileTypeData)
    IN  Method("requestFile", <<fileType, id>>,
               busSend(<<>>, packet) \o (IF Throws THEN <<>> ELSE switched.emitted),
               Throws, client)

requestFile(fileType, id) ==
    LET switched == requestFileSwitch(fileType, id)
        packet == WelcomeAgreeClientPacket(client.sessionId, fileType,
                                           switched.fileTypeData)
    IN  Method("requestFile", <<fileType, id>>,
               busSend(switched.emitted, packet),
               Throws, client)

WelcomeMsgClientPacket(characterId, sessionId) ==
    [family |-> "WelcomeMsg", characterId |-> characterId, sessionId |-> sessionId]

\* enterGame that enters the game without waiting for the server.
enterGame_optimistic ==
    Method("enterGame", <<>>,
           busSend(<<>>, WelcomeMsgClientPacket(client.character.id, client.sessionId)),
           Throws,
           IF Throws THEN client ELSE [client EXCEPT !.state = InGame])

enterGame ==
    Method("enterGame", <<>>,
           busSend(<<>>, WelcomeMsgClientPacket(client.character.id, client.sessionId)),
           Throws, client)


(***************************************************************************)
(* The packet handlers registered by setBus.  They run one at a time, each *)
(* to completion, and only once a bus is attached.                         *)
(***************************************************************************)
Handler(op, args, effects, after) ==
    /\ client.bus # NULL
    /\ out' = effects
    /\ call' = Call(op, args, FALSE)
    /\ client' = after
    /\ NoLoads
    /\ Elsewhere
    /\ Observed(op, args, effects)

\* The character lists a login reply can carry.
CharacterLists == {[i \in 1..n |-> i] : n \in 0..MaxCharacterId}

\* The NearbyInfo a game-entry or refresh reply can carry.
NearbySnapshots ==
    {[characters |-> [i \in 1..n |-> i], npcs |-> [i \in 1..k |-> i], items |-> [i \in 1..k |-> i]] :
        n \in 0..1, k \in 0..1}

\* The entries the handler layer queues: two of the five resource kinds,
\* enough for a queue that is empty, single or ordered.
DownloadQueueEntries == [type : {"Eif", "Emf"}, id : {1}]

\* The transport connected and the server answered the init handshake.
handleInitInit ==
    /\ client.state = Initial
    /\ Handler("handleInitInit", <<>>, <<>>, [client EXCEPT !.state = Connected])
    /\ NoHistory

\* The server accepted the credentials and lists the account's characters.
handleLoginReply(characters) ==
    /\ client.state = Connected
    /\ Handler("handleLoginReply", <<characters>>,
               emit(<<>>, "login", characters),
               [client EXCEPT !.state = Login])
    /\ charactersReceived' = (charactersReceived \/ characters # <<>>)
    /\ UNCHANGED fetchRequests

\* The server declined the credentials.
handleLoginRejected ==
    /\ client.state = Connected
    /\ Handler("handleLoginRejected", <<>>,
               showError(<<>>, "Login rejected", "Login failed"),
               client)
    /\ NoHistory

\* The server acknowledged the character selection and assigned a session id.
handleWelcomeReply(sessionId, characterId) ==
    /\ client.state = Login
    /\ Handler("handleWelcomeReply", <<sessionId, characterId>>,
               emit(<<>>, "selectCharacter", Undefined),
               [client EXCEPT !.state = LoggedIn,
                              !.sessionId = sessionId,
                              !.character.id = characterId])
    /\ NoHistory

\* The handler layer queues a resource the server reports as out of date.
queueDownload(entry) ==
    /\ client.state = LoggedIn
    /\ Len(client.downloadQueue) < MaxQueue
    /\ Handler("queueDownload", <<entry>>, <<>>,
               [client EXCEPT !.downloadQueue = Append(@, entry)])
    /\ NoHistory

\* A requested resource arrived in full: the pipeline advances.
handleInitFile ==
    /\ client.downloadQueue # <<>>
    /\ Handler("handleInitFile", <<>>, <<>>,
               [client EXCEPT !.downloadQueue = Tail(@)])
    /\ NoHistory

\* The server acknowledged game entry and describes what is in sight.
handleWelcomeEnterGame(nearby) ==
    /\ client.state = LoggedIn
    /\ Handler("handleWelcomeEnterGame", <<nearby>>,
               emit(<<>>, "enterGame", [news |-> <<>>]),
               [client EXCEPT !.state = InGame, !.nearby = nearby])
    /\ NoHistory

\* The server accepted a warp to mapId: an accept step is now pending.
handleWarpRequest(mapId) ==
    /\ client.state = InGame
    /\ Handler("handleWarpRequest", <<mapId>>, <<>>,
               [client EXCEPT !.warpMapId = mapId, !.warpQueued = TRUE])
    /\ NoHistory

\* The transport reported a disconnect.
handleDisconnect ==
    /\ Handler("handleDisconnect", <<>>,
               showError(<<>>, "Connection lost", "Disconnected"),
               [client EXCEPT !.state = Initial,
                              !.downloadQueue = <<>>,
                              !.nearby = EmptyNearby])
    /\ NoHistory

(***************************************************************************)
(* Entity discovery.  fetchRequests[id] counts the profile requests sent   *)
(* for id since its profile last arrived.                                  *)
(***************************************************************************)
Seen(id) == \E i \in DOMAIN client.nearby.characters : client.nearby.characters[i] = id

PlayerRangeRequestClientPacket(playerId) ==
    [family |-> "PlayerRangeRequest", playerId |-> playerId]

\* handleNearbyUpdate that asks for every player not in sight.
handleNearbyUpdate_unchecked(id) ==
    /\ client.state = InGame
    /\ IF ~Seen(id)
         THEN /\ Handler("handleNearbyUpdate", <<id>>,
                         busSend(<<>>, PlayerRangeRequestClientPacket(id)),
                         [client EXCEPT !.unknownPlayerIds = @ \cup {id}])
              /\ fetchRequests' = [fetchRequests EXCEPT ![id] = @ + 1]
         ELSE /\ Handler("handleNearbyUpdate", <<id>>, <<>>, client)
              /\ UNCHANGED fetchRequests
    /\ UNCHANGED charactersReceived

\* A nearby-update notification (walk, face, sit, avatar change) about
\* player id: an id neither in sight nor already asked for is asked for.
handleNearbyUpdate(id) ==
    /\ client.state = InGame
    /\ IF ~Seen(id) /\ id \notin client.unknownPlayerIds
         THEN /\ Handler("handleNearbyUpdate", <<id>>,
                         busSend(<<>>, PlayerRangeRequestClientPacket(id)),
                         [client EXCEPT !.unknownPlayerIds = @ \cup {id}])
              /\ fetchRequests' = [fetchRequests EXCEPT ![id] = @ + 1]
         ELSE /\ Handler("handleNearbyUpdate", <<id>>, <<>>, client)
              /\ UNCHANGED fetchRequests
    /\ UNCHANGED charactersReceived

\* The profile of player id arrived: the id is no longer unknown and the
\* player joins the characters in sight.
handlePlayersAgree(id) ==
    /\ client.state = InGame
    /\ Handler("handlePlayersAgree", <<id>>, <<>>,
               [client EXCEPT !.unknownPlayerIds = @ \ {id},
                              !.nearby.characters = IF Seen(id) THEN @ ELSE Append(@, id)])
    /\ fetchRequests' = [fetchRequests EXCEPT ![id] = 0]
    /\ UNCHANGED charactersReceived

(***************************************************************************)
(* The resource repository.  The constructor starts four loads and awaits  *)
(* none; each, when it completes, stores its result in its slot.  loadMap  *)
(* starts the load of one map and stores it when that load completes.      *)
(***************************************************************************)
getEif == "item definitions"
getEcf == "class definitions"
getEnf == "npc definitions"
getEsf == "spell definitions"
getEmf(id) == "map " \o ToString(id)

StartupLoads == {"getEif", "getEcf", "getEnf", "getEsf"}

\* The continuation of a load: one assignment to the client, nothing sent
\* or published.
Continuation(op, args, after) ==
    /\ out' = <<>>
    /\ call' = Call(op, args, FALSE)
    /\ client' = after
    /\ NoHistory
    /\ Elsewhere
    /\ Observed(op, args, <<>>)

Completed(load) ==
    /\ load \in pending
    /\ pending' = pending \ {load}
    /\ UNCHANGED <<mapLoads, lastLoadMap>>

eifLoaded == Completed("getEif") /\ Continuation("getEif", <<>>, [client EXCEPT !.eif = getEif])

\* The class load storing its result in the item slot.
ecfLoaded_wrongSlot ==
    Completed("getEcf") /\ Continuation("getEcf", <<>>, [client EXCEPT !.eif = getEcf])

ecfLoaded == Completed("getEcf") /\ Continuation("getEcf", <<>>, [client EXCEPT !.ecf = getEcf])

enfLoaded == Completed("getEnf") /\ Continuation("getEnf", <<>>, [client EXCEPT !.enf = getEnf])

esfLoaded == Completed("getEsf") /\ Continuation("getEsf", <<>>, [client EXCEPT !.esf = getEsf])

\* loadMap(id) up to its await: the load of map id is in flight.
loadMap(id) ==
    /\ Len(mapLoads) < MaxMapLoads
    /\ mapLoads' = Append(mapLoads, id)
    /\ lastLoadMap' = id
    /\ UNCHANGED pending
    /\ Continuation("loadMap", <<id>>, client)

\* mapLoads without its i-th entry.
Without(i) == [j \in 1..(Len(mapLoads) - 1) |-> IF j < i THEN mapLoads[j] ELSE mapLoads[j + 1]]

\* loadMap after its await: the i-th load in flight completed.
emfLoaded(i) ==
    /\ i \in DOMAIN mapLoads
    /\ mapLoads' = Without(i)
    /\ UNCHANGED <<pending, lastLoadMap>>
    /\ Continuation("getEmf", <<mapLoads[i]>>, [client EXCEPT !.map = getEmf(mapLoads[i])])

(***************************************************************************)
(* The event channel: on(), emit() and showError() as the UI and the       *)
(* handlers call them.                                                     *)
(***************************************************************************)
\* The payloads published with each event name.
EventPayloads ==
    [error |-> {[title |-> "Login", message |-> "Wrong password"]},
     debug |-> {"Loading map.."},
     login |-> {<<1>>},
     selectCharacter |-> {Undefined},
     enterGame |-> {[news |-> <<"news">>]},
     playerWalk |-> {[playerId |-> 1, direction |-> "Down", coords |-> [x |-> 1, y |-> 1]]},
     npcWalk |-> {[npcIndex |-> 1, direction |-> "Down", coords |-> [x |-> 1, y |-> 1]]},
     switchMap |-> {Undefined},
     refresh |-> {Undefined}]

Messages == {"Connection lost", "Wrong password"}
Titles == {"Login", Undefined}

Registered ==
    LET RECURSIVE Count(_)
        Count(events) ==
            IF events = {} THEN 0
            ELSE LET event == CHOOSE e \in events : TRUE
                 IN  Len(handlers[event]) + Count(events \ {event})
    IN  Count(EventNames)

\* on(event, handler)
on(event, handler) ==
    /\ Registered < MaxHandlers
    /\ handlers' = [handlers EXCEPT ![event] = Append(@, handler)]
    /\ out' = <<>>
    /\ call' = Call("on", <<event, handler>>, FALSE)
    /\ client' = client
    /\ NoHistory
    /\ NoLoads
    /\ UNCHANGED <<animations, tickCalls>>
    /\ Observed("on", <<event, handler>>, <<>>)

\* emit(event, data)
emitCall(event, data) ==
    Method("emit", <<event, data>>, emit(<<>>, event, data), FALSE, client)

\* showError(message, title)
showErrorCall(message, title) ==
    Method("showError", <<message, title>>, showError(<<>>, message, title), FALSE, client)

(***************************************************************************)
(* NpcDeathAnimation (render/npc-death.ts).  NPC_DEATH_TICKS is imported   *)
(* from consts; the model takes a small value for it.                      *)
(***************************************************************************)
NPC_DEATH_TICKS == 3

NpcIndices == 1..MaxNpcs
NoAnimation == [playing |-> FALSE, ticks |-> 0]

Max(a, b) == IF a >= b THEN a ELSE b

\* A step of the renderer: nothing of the client is touched.
Rendering(op, args) ==
    /\ out' = <<>>
    /\ call' = Call(op, args, FALSE)
    /\ client' = client
    /\ NoHistory
    /\ NoLoads
    /\ UNCHANGED handlers
    /\ Observed(op, args, <<>>)

\* new NpcDeathAnimation() for npc
newNpcDeathAnimation(npc) ==
    /\ animations' = [animations EXCEPT ![npc] = [playing |-> TRUE, ticks |-> NPC_DEATH_TICKS]]
    /\ tickCalls' = [tickCalls EXCEPT ![npc] = 0]
    /\ Rendering("new NpcDeathAnimation", <<npc>>)

\* tick() that counts down without a floor.
tick_unclamped(npc) ==
    /\ animations[npc].playing
    /\ tickCalls[npc] < NPC_DEATH_TICKS + ExtraTicks
    /\ animations' = [animations EXCEPT ![npc].ticks = @ - 1]
    /\ tickCalls' = [tickCalls EXCEPT ![npc] = @ + 1]
    /\ Rendering("tick", <<npc>>)

\* tick() on the animation of npc
tick(npc) ==
    /\ animations[npc].playing
    /\ tickCalls[npc] < NPC_DEATH_TICKS + ExtraTicks
    /\ animations' = [animations EXCEPT ![npc].ticks = Max(@ - 1, 0)]
    /\ tickCalls' = [tickCalls EXCEPT ![npc] = @ + 1]
    /\ Rendering("tick", <<npc>>)

(***************************************************************************)
(* The session: the UI calling the client's methods in any order, and the  *)
(* server's notifications arriving as the protocol allows.                 *)
(***************************************************************************)
Init ==
    /\ client = NewClient
    /\ out = <<>>
    /\ call = [op |-> "new", args |-> <<>>, threw |-> FALSE, pre |-> NewClient]
    /\ charactersReceived = FALSE
    /\ fetchRequests = [id \in PlayerIds |-> 0]
    /\ pending = StartupLoads
    /\ mapLoads = <<>>
    /\ lastLoadMap = 0
    /\ handlers = [event \in EventNames |-> <<>>]
    /\ invoked = <<>>
    /\ animations = [npc \in NpcIndices |-> NoAnimation]
    /\ tickCalls = [npc \in NpcIndices |-> 0]
    /\ log = [keep |-> 0, entries |-> <<>>]

SetBus == client.bus = NULL /\ setBus
LoginCall == \E username \in Usernames, password \in Passwords : login(username, password)
SelectCharacter == \E characterId \in CharacterIds : selectCharacter(characterId)
RequestWarpMap == \E id \in MapIds : requestWarpMap(id)
AcceptWarp == acceptWarp
RequestFile == \E fileType \in FileType, id \in FileIds : requestFile(fileType, id)
EnterGame == enterGame
HandleInitInit == handleInitInit
HandleLoginReply == \E characters \in CharacterLists : handleLoginReply(characters)
HandleLoginRejected == handleLoginRejected
HandleWelcomeReply ==
    \E sessionId \in SessionIds, characterId \in CharacterIds :
        handleWelcomeReply(sessionId, characterId)
QueueDownload == \E entry \in DownloadQueueEntries : queueDownload(entry)
HandleInitFile == handleInitFile
HandleWelcomeEnterGame == \E nearby \in NearbySnapshots : handleWelcomeEnterGame(nearby)
HandleWarpRequest == \E mapId \in MapIds : handleWarpRequest(mapId)
HandleDisconnect == handleDisconnect

Next ==
    \/ SetBus
    \/ LoginCall
    \/ SelectCharacter
    \/ RequestWarpMap
    \/ AcceptWarp
    \/ RequestFile
    \/ EnterGame
    \/ HandleInitInit
    \/ HandleLoginReply
    \/ HandleLoginRejected
    \/ HandleWelcomeReply
    \/ QueueDownload
    \/ HandleInitFile
    \/ HandleWelcomeEnterGame
    \/ HandleWarpRequest
    \/ HandleDisconnect

Spec == Init /\ [][Next]_vars

(***************************************************************************)
(* Entity discovery over the lifetime of a connection: the server's        *)
(* notifications only, through login, game entry, play and disconnect.     *)
(***************************************************************************)
HandleNearbyUpdate == \E id \in PlayerIds : handleNearbyUpdate(id)
HandlePlayersAgree == \E id \in PlayerIds : handlePlayersAgree(id)

NextDiscovery ==
    \/ SetBus
    \/ HandleInitInit
    \/ HandleLoginReply
    \/ HandleWelcomeReply
    \/ HandleWelcomeEnterGame
    \/ HandleNearbyUpdate
    \/ HandlePlayersAgree
    \/ HandleDisconnect

SpecDiscovery == Init /\ [][NextDiscovery]_vars

(***************************************************************************)
(* The startup loads racing the lifecycle: the four completions in any     *)
(* order, among the calls and notifications of connection, login,          *)
(* character selection and game entry.                                     *)
(***************************************************************************)
EifLoaded == eifLoaded
EcfLoaded == ecfLoaded
EnfLoaded == enfLoaded
EsfLoaded == esfLoaded

NextLoads ==
    \/ EifLoaded
    \/ EcfLoaded
    \/ EnfLoaded
    \/ EsfLoaded
    \/ SetBus
    \/ LoginCall
    \/ SelectCharacter
    \/ HandleInitInit
    \/ HandleLoginReply
    \/ HandleWelcomeReply
    \/ HandleWelcomeEnterGame
    \/ HandleDisconnect

SpecLoads == Init /\ [][NextLoads]_vars

(***************************************************************************)
(* Map loads: loadMap calls and the completions of the loads in flight, in *)
(* any order, beside the startup loads.                                    *)
(***************************************************************************)
LoadMap == \E id \in MapIds : loadMap(id)
EmfLoaded == \E i \in 1..MaxMapLoads : emfLoaded(i)

NextMapLoads ==
    \/ LoadMap
    \/ EmfLoaded
    \/ EifLoaded
    \/ EcfLoaded
    \/ EnfLoaded
    \/ EsfLoaded

SpecMapLoads == Init /\ [][NextMapLoads]_vars

(***************************************************************************)
(* The event channel on its own.                                           *)
(***************************************************************************)
On == \E event \in EventNames, handler \in HandlerIds : on(event, handler)
EmitCall == \E event \in EventNames : \E data \in EventPayloads[event] : emitCall(event, data)
ShowErrorCall == \E message \in Messages, title \in Titles : showErrorCall(message, title)

NextEvents ==
    \/ On
    \/ EmitCall
    \/ ShowErrorCall

SpecEvents == Init /\ [][NextEvents]_vars

(***************************************************************************)
(* The death animations on their own.                                      *)
(***************************************************************************)
NewNpcDeathAnimation == \E npc \in NpcIndices : newNpcDeathAnimation(npc)
Tick == \E npc \in NpcIndices : tick(npc)

NextAnimation ==
    \/ NewNpcDeathAnimation
    \/ Tick

SpecAnimation == Init /\ [][NextAnimation]_vars

(***************************************************************************)
(* Scenarios.  They start from a client in the game, as the session leaves *)
(* it after setBus, the init handshake, a login, the selection of          *)
(* character 1 under session 1 and the game entry with nothing in sight,   *)
(* and they log every step until the log is full.                          *)
(***************************************************************************)
Playing ==
    [NewClient EXCEPT !.bus = Bus, !.state = InGame, !.sessionId = 1, !.character.id = 1]

InitPlaying(steps) ==
    /\ client = Playing
    /\ out = emit(<<>>, "enterGame", [news |-> <<>>])
    /\ call = [op |-> "handleWelcomeEnterGame", args |-> <<EmptyNearby>>, threw |-> FALSE,
               pre |-> [Playing EXCEPT !.state = LoggedIn]]
    /\ charactersReceived = TRUE
    /\ fetchRequests = [id \in PlayerIds |-> 0]
    /\ pending = StartupLoads
    /\ mapLoads = <<>>
    /\ lastLoadMap = 0
    /\ handlers = [event \in EventNames |-> <<>>]
    /\ invoked = <<>>
    /\ animations = [npc \in NpcIndices |-> NoAnimation]
    /\ tickCalls = [npc \in NpcIndices |-> 0]
    /\ log = [keep |-> steps, entries |-> <<>>]

LogOpen == Len(log.entries) < log.keep

\* The warp handshake: requests, the server's acceptances and the user's
\* accept step in any order.
InitWarp == InitPlaying(MaxWarpSteps)
WarpRequested == LogOpen /\ RequestWarpMap
WarpGranted == LogOpen /\ HandleWarpRequest
WarpAccepted == LogOpen /\ AcceptWarp

NextWarp ==
    \/ WarpRequested
    \/ WarpGranted
    \/ WarpAccepted

SpecWarp == InitWarp /\ [][NextWarp]_vars

\* The traffic on the transport: the six request methods called in any
\* order, and the notifications about nearby players.
InitTraffic == InitPlaying(MaxTrafficSteps)
LoginLogged == LogOpen /\ LoginCall
SelectCharacterLogged == LogOpen /\ SelectCharacter
RequestWarpMapLogged == LogOpen /\ RequestWarpMap
AcceptWarpLogged == LogOpen /\ AcceptWarp
RequestFileLogged == LogOpen /\ RequestFile
EnterGameLogged == LogOpen /\ EnterGame
NearbyUpdateLogged == LogOpen /\ HandleNearbyUpdate
PlayersAgreeLogged == LogOpen /\ HandlePlayersAgree

NextTraffic ==
    \/ LoginLogged
    \/ SelectCharacterLogged
    \/ RequestWarpMapLogged
    \/ AcceptWarpLogged
    \/ RequestFileLogged
    \/ EnterGameLogged
    \/ NearbyUpdateLogged
    \/ PlayersAgreeLogged

SpecTraffic == InitTraffic /\ [][NextTraffic]_vars

\* The state the scenarios start from, as the session reaches it.
PlayingReached ==
    /\ client = Playing
    /\ out = emit(<<>>, "enterGame", [news |-> <<>>])
    /\ call = [op |-> "handleWelcomeEnterGame", args |-> <<EmptyNearby>>, threw |-> FALSE,
               pre |-> [Playing EXCEPT !.state = LoggedIn]]
    /\ charactersReceived

TypeOK ==
    /\ client.state \in GameState
    /\ client.sessionId \in 0..MaxSessionId
    /\ client.warpMapId \in 0..MaxMapId
    /\ client.warpQueued \in BOOLEAN
    /\ Len(client.downloadQueue) <= MaxQueue

(***************************************************************************)
(* Properties.  Each is stated over the call just made: call.pre holds the *)
(* client fields the call started from, out what it sent and published.    *)
(***************************************************************************)
BusAttached == call.pre.bus # NULL

\* C1: acceptWarp() called while warpQueued is false sends no message and
\* leaves warpMapId unchanged.
C1_AcceptWarpNotQueuedIsNoOp ==
    (call.op = "acceptWarp" /\ ~call.pre.warpQueued) =>
        /\ SentPackets = <<>>
        /\ client.warpMapId = call.pre.warpMapId

\* C2: once the server has accepted a warp (warpMapId = m, warpQueued true),
\* acceptWarp() sends exactly one acceptance message, carrying the current
\* sessionId and map id m, and warpQueued is false when it returns.
C2_AcceptWarpEchoesAndClears ==
    (call.op = "acceptWarp" /\ call.pre.warpQueued) =>
        /\ SentPackets = <<[family |-> "WarpAccept",
                            sessionId |-> call.pre.sessionId,
                            mapId |-> call.pre.warpMapId]>>
        /\ ~client.warpQueued

C2_Witness ==
    /\ call.op = "acceptWarp"
    /\ call.pre.warpQueued
    /\ call.pre.warpMapId = 2
    /\ call.pre.sessionId = 2
    /\ Len(SentPackets) = 1
    /\ ~client.warpQueued

\* C3: every call and notification leaves the lifecycle state where it was
\* or moves it one step forward along Initial, Connected, Login, LoggedIn,
\* InGame; only a transport disconnect moves it back, and then to Initial.
C3_LifecycleForward ==
    \/ client.state = call.pre.state
    \/ client.state = call.pre.state + 1 /\ client.state <= InGame
    \/ call.op = "handleDisconnect" /\ client.state = Initial

C3_Witness ==
    /\ call.op = "handleDisconnect"
    /\ call.pre.state = InGame
    /\ client.state = Initial

\* C4: no player id has more than one profile request outstanding: a
\* nearby-update about an id already in unknownPlayerIds sends nothing, and
\* the id is out of the set once its profile has been received.
C4_FetchedOnce ==
    \A id \in PlayerIds :
        /\ fetchRequests[id] <= 1
        /\ (call.op = "handleNearbyUpdate" /\ call.args[1] = id
                /\ id \in call.pre.unknownPlayerIds) => SentPackets = <<>>
        /\ (call.op = "handlePlayersAgree" /\ call.args[1] = id) =>
                id \notin client.unknownPlayerIds

\* A repeated notification about a player who is neither in sight nor
\* answered for yet.
C4_Witness ==
    /\ call.op = "handleNearbyUpdate"
    /\ call.args[1] \in call.pre.unknownPlayerIds
    /\ \A i \in DOMAIN call.pre.nearby.characters :
           call.pre.nearby.characters[i] # call.args[1]
    /\ fetchRequests[call.args[1]] = 1
    /\ SentPackets = <<>>

\* C5: a transport disconnect, in whatever lifecycle state, publishes
\* exactly one error event, sets state to Initial and empties downloadQueue
\* and the three nearby sequences.
C5_DisconnectResets ==
    call.op = "handleDisconnect" =>
        /\ Len(Events) = 1
        /\ Events[1].event = "error"
        /\ client.state = Initial
        /\ client.downloadQueue = <<>>
        /\ client.nearby.characters = <<>>
        /\ client.nearby.npcs = <<>>
        /\ client.nearby.items = <<>>

C5_Witness ==
    /\ call.op = "handleDisconnect"
    /\ call.pre.state = InGame
    /\ call.pre.downloadQueue # <<>>
    /\ call.pre.nearby.characters # <<>>
    /\ call.pre.nearby.npcs # <<>>
    /\ call.pre.nearby.items # <<>>
    /\ client.state = Initial

\* The payload variant of each resource kind.
C6_Variant ==
    [Ecf |-> "FileTypeDataEcf", Eif |-> "FileTypeDataEif", Enf |-> "FileTypeDataEnf",
     Esf |-> "FileTypeDataEsf", Emf |-> "FileTypeDataEmf"]

\* C6: with a transport attached, requestFile(kind, id) for each of the
\* five resource kinds sends one message whose sessionId is the client's
\* sessionId at the call, whose fileType and payload variant are those of
\* kind, and whose fileId is id.
C6_RequestFileStamps ==
    (call.op = "requestFile" /\ BusAttached /\ call.args[1] \in KnownFileTypes) =>
        SentPackets = <<[family |-> "WelcomeAgree",
                         sessionId |-> call.pre.sessionId,
                         fileType |-> call.args[1],
                         fileTypeData |-> [variant |-> C6_Variant[call.args[1]],
                                           fileId |-> call.args[2]]]>>

\* A request made under a session id the server assigned after an earlier
\* session had another one.
C6_Witness ==
    /\ call.op = "requestFile"
    /\ BusAttached
    /\ call.args = <<"Eif", 2>>
    /\ call.pre.sessionId = 2
    /\ Len(SentPackets) = 1
    /\ SentPackets[1].sessionId = 2

\* C7: with a transport attached, login(username, password) sends one
\* login-request message carrying that username and that password and
\* changes no client field, state included.
C7_LoginSendsAndKeepsState ==
    (call.op = "login" /\ BusAttached) =>
        /\ out = <<[ch |-> "send",
                    packet |-> [family |-> "LoginRequest",
                                username |-> call.args[1],
                                password |-> call.args[2]]]>>
        /\ client = call.pre

C7_Witness ==
    /\ call.op = "login"
    /\ call.args = <<"bob", "pw">>
    /\ call.pre.state = Connected
    /\ client.state = Connected
    /\ Len(SentPackets) = 1

\* C8: a login call made while state is Initial puts no login-request
\* message on the transport.
C8_LoginNeedsConnected ==
    (call.op = "login" /\ call.pre.state = Initial) => SentPackets = <<>>

\* C9: no character-selection request is sent before a login success with
\* at least one character has been received.
C9_SelectNeedsLoginResult ==
    (call.op = "selectCharacter" /\ ~charactersReceived) => SentPackets = <<>>

\* C10: with a transport attached, requestWarpMap(mapId) sends one
\* warp-initiation message carrying mapId and the current sessionId, and
\* leaves mapId, warpMapId, warpQueued and the loaded map unchanged.
C10_RequestWarpMapSendsOnly ==
    (call.op = "requestWarpMap" /\ BusAttached) =>
        /\ out = <<[ch |-> "send",
                    packet |-> [family |-> "WarpTake",
                                sessionId |-> call.pre.sessionId,
                                mapId |-> call.args[1]]]>>
        /\ client.mapId = call.pre.mapId
        /\ client.warpMapId = call.pre.warpMapId
        /\ client.warpQueued = call.pre.warpQueued
        /\ client.map = call.pre.map

\* A warp requested to a map other than the one of the pending warp.
C10_Witness ==
    /\ call.op = "requestWarpMap"
    /\ BusAttached
    /\ call.args = <<2>>
    /\ call.pre.sessionId = 2
    /\ call.pre.warpMapId = 1
    /\ call.pre.warpQueued
    /\ client.warpMapId = 1
    /\ Len(SentPackets) = 1

ClientMethods ==
    {"login", "selectCharacter", "requestWarpMap", "acceptWarp", "requestFile", "enterGame"}

\* C11: with a transport attached, enterGame() sends one game-entry
\* confirmation carrying the current character.id and the current
\* sessionId and leaves state as it was; state becomes InGame only in the
\* handler of the server's acknowledgment.
C11_EnterGameWaitsForServer ==
    /\ (call.op = "enterGame" /\ BusAttached) =>
           /\ out = <<[ch |-> "send",
                       packet |-> [family |-> "WelcomeMsg",
                                   characterId |-> call.pre.character.id,
                                   sessionId |-> call.pre.sessionId]]>>
           /\ client.state = call.pre.state
    /\ (client.state = InGame /\ call.pre.state # InGame) =>
           call.op = "handleWelcomeEnterGame"

C11_Witness ==
    /\ call.op = "enterGame"
    /\ BusAttached
    /\ call.pre.state = LoggedIn
    /\ call.pre.character.id = 2
    /\ call.pre.sessionId = 1
    /\ Len(SentPackets) = 1
    /\ client.state = LoggedIn

SessionScoped == {"requestWarpMap", "acceptWarp", "requestFile", "enterGame"}

\* C12: the session id the client holds is the one the server assigned
\* last, and every warp-initiation, warp-acceptance, file-agree and
\* game-entry message carries it, whatever calls and assignments came
\* before.
C12_SessionIdEchoed ==
    /\ client.sessionId # call.pre.sessionId =>
           (call.op = "handleWelcomeReply" /\ client.sessionId = call.args[1])
    /\ call.op \in SessionScoped =>
           \A i \in DOMAIN SentPackets : SentPackets[i].sessionId = call.pre.sessionId

\* An acceptance sent under a session id the server assigned.
C12_Witness ==
    /\ call.op = "acceptWarp"
    /\ call.pre.warpQueued
    /\ call.pre.sessionId = 1
    /\ call.pre.playerId # call.pre.sessionId
    /\ Len(SentPackets) = 1
    /\ SentPackets[1].sessionId = 1

\* The text of the progress notification of each resource kind.
C13_Text ==
    [Ecf |-> "Loading classes..", Eif |-> "Loading items..", Enf |-> "Loading NPCs..",
     Esf |-> "Loading spells..", Emf |-> "Loading map.."]

\* C13: a requestFile call for one of the five resource kinds publishes
\* exactly one debug notification, whose text names the kind's category,
\* and publishes it before the agree message is handed to the transport.
C13_DebugBeforeSend ==
    (call.op = "requestFile" /\ call.args[1] \in KnownFileTypes) =>
        /\ Len(Events) = 1
        /\ out[1] = [ch |-> "emit", event |-> "debug", data |-> C13_Text[call.args[1]]]
        /\ BusAttached => (Len(out) = 2 /\ out[2].ch = "send")

C13_Witness ==
    /\ call.op = "requestFile"
    /\ BusAttached
    /\ call.args = <<"Enf", 1>>
    /\ Len(out) = 2
    /\ out[1].data = "Loading NPCs.."
    /\ out[2].ch = "send"

\* C18: a call of one of the six request methods made before setBus fails
\* with an error and has no observable effect: nothing is sent, nothing is
\* published and no client field changes.
C18_NoBusNoEffect ==
    (call.op \in ClientMethods /\ ~BusAttached) =>
        /\ call.threw
        /\ out = <<>>
        /\ client = call.pre

\* The slot each startup load fills, and what it fills it with.
C16_Slot == [getEif |-> "eif", getEcf |-> "ecf", getEnf |-> "enf", getEsf |-> "esf"]
C16_Result ==
    [eif |-> "item definitions", ecf |-> "class definitions",
     enf |-> "npc definitions", esf |-> "spell definitions"]

\* The four slots of a client record.
C16_Slots(c) == [eif |-> c.eif, ecf |-> c.ecf, enf |-> c.enf, esf |-> c.esf]

\* The slots of c with slot k filled.
C16_Filled(c, k) == [C16_Slots(c) EXCEPT ![k] = C16_Result[k]]

\* c with its four slots blanked: everything a completion must not touch.
C16_Rest(c) == [c EXCEPT !.eif = NULL, !.ecf = NULL, !.enf = NULL, !.esf = NULL]

\* C16: the four startup loads complete in any order and in any lifecycle
\* state; a completion fills its own slot and changes nothing else of the
\* client; once all four completed the slots hold the same contents
\* whatever the order was; and login and selectCharacter send their
\* message whether or not the slots are filled.
C16_LoadsRaceLifecycle ==
    /\ call.op \in DOMAIN C16_Slot =>
           /\ C16_Slots(client) = C16_Filled(call.pre, C16_Slot[call.op])
           /\ C16_Rest(client) = C16_Rest(call.pre)
           /\ out = <<>>
    /\ pending = {} => C16_Slots(client) = C16_Result
    /\ (call.op \in {"login", "selectCharacter"} /\ BusAttached) => Len(SentPackets) = 1

\* The item load completing during login, after the spell load and before
\* the class load: the reverse of the order they were started in.
C16_Witness ==
    /\ call.op = "getEif"
    /\ call.pre.state = Login
    /\ call.pre.esf # NULL
    /\ call.pre.ecf = NULL
    /\ call.pre.eif = NULL
    /\ client.eif = "item definitions"
    /\ client.ecf = NULL

\* C17: when loadMap(a) and then loadMap(b) were started and both loads
\* completed, in either order, the map slot holds the definition of b.
C17_LastRequestedMapWins ==
    (lastLoadMap # 0 /\ mapLoads = <<>>) => client.map = "map " \o ToString(lastLoadMap)

\* The event name and the payload an emit or showError call publishes.
C19_Event == IF call.op = "showError" THEN "error" ELSE call.args[1]
C19_Payload ==
    IF call.op = "showError"
        THEN [title |-> IF call.args[2] = "undefined" THEN "" ELSE call.args[2],
              message |-> call.args[1]]
        ELSE call.args[2]

\* C19: an emit(event, data) or showError call invokes each handler
\* registered with on() for that event name, once per registration and in
\* the order of registration, with that payload; it invokes no handler of
\* another event name and changes no client field; and showError(message)
\* without a title publishes an error event whose title is the empty string.
C19_ChannelOnlyDelivers ==
    call.op \in {"emit", "showError"} =>
        /\ Len(invoked) = Len(handlers[C19_Event])
        /\ \A i \in DOMAIN invoked :
               invoked[i] = [handler |-> handlers[C19_Event][i],
                             event |-> C19_Event, data |-> C19_Payload]
        /\ client = call.pre
        /\ (call.op = "showError" /\ call.args[2] = "undefined") =>
               out = <<[ch |-> "emit", event |-> "error",
                        data |-> [title |-> "", message |-> call.args[1]]]>>

\* showError without a title, with one handler on error and one on debug.
C19_Witness ==
    /\ call.op = "showError"
    /\ call.args[2] = "undefined"
    /\ handlers["error"] = <<"h1">>
    /\ handlers["debug"] = <<"h2">>
    /\ Len(invoked) = 1
    /\ invoked[1].handler = "h1"
    /\ invoked[1].data.title = ""

\* C20: ticks starts at NPC_DEATH_TICKS, every tick() lowers it by one but
\* not below 0: it stays within 0..NPC_DEATH_TICKS, is 0 after exactly
\* NPC_DEATH_TICKS calls and remains 0 on every later call.
C20_TicksCountDownToZero ==
    \A npc \in NpcIndices :
        animations[npc].playing =>
            /\ animations[npc].ticks \in 0..NPC_DEATH_TICKS
            /\ tickCalls[npc] < NPC_DEATH_TICKS =>
                   animations[npc].ticks = NPC_DEATH_TICKS - tickCalls[npc]
            /\ tickCalls[npc] >= NPC_DEATH_TICKS => animations[npc].ticks = 0

\* A tick() on an animation that had already run out.
C20_Witness ==
    /\ call.op = "tick"
    /\ tickCalls[call.args[1]] = NPC_DEATH_TICKS + ExtraTicks
    /\ animations[call.args[1]].ticks = 0

\* The families of the packets the six request methods send.
C14_RequestFamilies ==
    {"LoginRequest", "WelcomeRequest", "WarpTake", "WarpAccept", "WelcomeAgree", "WelcomeMsg"}

\* How many requestFile(fileType, id) calls the log holds, and how many
\* agree messages for that file type and id.
C14_Calls(fileType, id) ==
    Cardinality({k \in DOMAIN log.entries :
                    /\ log.entries[k].op = "requestFile"
                    /\ log.entries[k].args = <<fileType, id>>})
C14_Agrees(fileType, id) ==
    Cardinality({kj \in (DOMAIN log.entries) \X (1..2) :
                    /\ kj[2] \in DOMAIN log.entries[kj[1]].sent
                    /\ log.entries[kj[1]].sent[kj[2]].family = "WelcomeAgree"
                    /\ log.entries[kj[1]].sent[kj[2]].fileType = fileType
                    /\ log.entries[kj[1]].sent[kj[2]].fileTypeData.fileId = id})

C14_EveryCallSendsOnce ==
    /\ \A k \in DOMAIN log.entries :
           log.entries[k].op \in ClientMethods => Len(log.entries[k].sent) = 1
    /\ \A fileType \in KnownFileTypes, id \in FileIds :
           C14_Agrees(fileType, id) = C14_Calls(fileType, id)

\* C14 as stated: every call of one of the six request methods with a
\* transport attached sends exactly one message, N requestFile calls with
\* the same kind and id send N messages, and no message is sent without
\* such a call.
C14_OnlyCallsSend ==
    /\ C14_EveryCallSendsOnce
    /\ \A k \in DOMAIN log.entries :
           log.entries[k].op \notin ClientMethods => log.entries[k].sent = <<>>

\* C14, amended: every call of one of the six request methods with a
\* transport attached sends exactly one message, N requestFile calls with
\* the same kind and id send N messages, and no message of the six
\* families those methods send is sent without such a call (the handlers
\* send requests of their own, such as the profile request for an unknown
\* player).
C14_OnlyCallsSendRequests ==
    /\ C14_EveryCallSendsOnce
    /\ \A k \in DOMAIN log.entries :
           log.entries[k].op \notin ClientMethods =>
               \A j \in DOMAIN log.entries[k].sent :
                   log.entries[k].sent[j].family \notin C14_RequestFamilies

\* The same requestFile call twice in a row, each sending its message.
C14_Witness ==
    /\ Len(log.entries) = 2
    /\ log.entries[1].op = "requestFile"
    /\ log.entries[1].args = <<"Emf", 1>>
    /\ log.entries[2] = log.entries[1]
    /\ Len(log.entries[1].sent) = 1
    /\ C14_Agrees("Emf", 1) = 2

\* The last acceptance by the server before step k of the log.
C15_LastGranted(k) ==
    CHOOSE j \in 1..(k - 1) :
        /\ log.entries[j].op = "handleWarpRequest"
        /\ \A i \in (j + 1)..(k - 1) : log.entries[i].op # "handleWarpRequest"

\* C15: requestWarpMap is never blocked, whatever warp is pending: each
\* call sends its warp-initiation message; and an acceptWarp made after the
\* server accepted one warp or several sends one acceptance, for the map
\* accepted last, and clears warpQueued, so that none is sent for a map
\* accepted earlier.
C15_OverlappingWarps ==
    /\ \A k \in DOMAIN log.entries :
           /\ log.entries[k].op = "requestWarpMap" =>
                  log.entries[k].sent =
                      <<[family |-> "WarpTake", sessionId |-> client.sessionId,
                         mapId |-> log.entries[k].args[1]]>>
           /\ (/\ log.entries[k].op = "acceptWarp"
               /\ \E j \in 1..(k - 1) : log.entries[j].op = "handleWarpRequest") =>
                  log.entries[k].sent =
                      <<[family |-> "WarpAccept", sessionId |-> client.sessionId,
                         mapId |-> log.entries[C15_LastGranted(k)].args[1]]>>
    /\ call.op = "acceptWarp" => ~client.warpQueued

\* Two requests, both accepted by the server, then one accept step.
C15_Witness ==
    /\ Len(log.entries) = 5
    /\ log.entries[1].op = "requestWarpMap" /\ log.entries[1].args = <<1>>
    /\ log.entries[2].op = "requestWarpMap" /\ log.entries[2].args = <<2>>
    /\ Len(log.entries[1].sent) = 1 /\ Len(log.entries[2].sent) = 1
    /\ log.entries[3].op = "handleWarpRequest" /\ log.entries[3].args = <<1>>
    /\ log.entries[4].op = "handleWarpRequest" /\ log.entries[4].args = <<2>>
    /\ log.entries[5].op = "acceptWarp"
    /\ log.entries[5].sent = <<[family |-> "WarpAccept", sessionId |-> 1, mapId |-> 2]>>
    /\ ~client.warpQueued

=============================================================================
